---- MODULE Spec2Model ----
(***************************************************************************)
(* A model of the MICS estimator (craabreu/MICS): the mixture orchestrator *)
(* of src/src/mics/mixtures.py and the solver and engines of               *)
(* src/src/mics/MICS.py.                                                   *)
(*                                                                         *)
(* Numbers.  The program computes in float64.  The model computes in       *)
(* fixed point: the integer X stands for the real X / SCALE, products and  *)
(* quotients are rounded to the nearest unit, exp and log are computed to  *)
(* that precision.  A square root is kept as its radicand ([sqrt |-> q]),  *)
(* so no rounding enters a standard error.  Inputs are finite numbers      *)
(* (no NaN, no infinity) small enough that nothing overflows.              *)
(*                                                                         *)
(* Indices.  Python indexes from 0, TLA+ sequences from 1: state k of the  *)
(* program is entry k + 1 of a sequence here.  A reference index is kept   *)
(* as the program's (0 .. m - 1).                                          *)
(*                                                                         *)
(* Missing collaborators.  mics.utils (covariance, cross_covariance, pinv, *)
(* cases, stdError, errorTitle, multimap, overlapSampling, InputError),    *)
(* mics.funcs (func) and the sample pool (__qualifiers__) are not part of  *)
(* the sources at hand; they are modelled from the specification.          *)
(***************************************************************************)
EXTENDS Integers, Sequences, FiniteSets, TLC

\* ------------------------------------------------------------------------
\* Bounds of the model
\* ------------------------------------------------------------------------

\* Newton-Raphson iterations the model follows before it leaves a
\* construction unfinished (the program itself has no such cap).
MaxIter == 6

\* ------------------------------------------------------------------------
\* Fixed-point arithmetic (float64 in the program)
\* ------------------------------------------------------------------------

\* One unit of the fixed-point representation is 1 / SCALE.
SCALE == 256

\* log(2) in fixed point.
LN2 == 177

Abs(x) == IF x < 0 THEN -x ELSE x

\* a / b rounded to the nearest integer (b # 0).
RDiv(a, b) == IF b < 0 THEN (2 * (-a) - b) \div (2 * (-b))
              ELSE (2 * a + b) \div (2 * b)

Mul(a, b) == RDiv(a * b, SCALE)

Div(a, b) == RDiv(a * SCALE, b)

\* The terms x^k / k! of the exponential series, k = j .. 7, summed.
RECURSIVE ExpSeries(_, _, _)
ExpSeries(x, term, j) ==
    IF j > 7 THEN 0
    ELSE LET t == RDiv(term * x, j * SCALE) IN t + ExpSeries(x, t, j + 1)

\* np.exp
RECURSIVE Exp(_)
Exp(x) ==
    IF x < 0 THEN RDiv(SCALE * SCALE, Exp(-x))
    ELSE IF x > SCALE THEN Mul(Exp(x \div 2), Exp(x - (x \div 2)))
    ELSE SCALE + ExpSeries(x, SCALE, 1)

\* np.log (y > 0): 2 * atanh((y - 1) / (y + 1)) after halving or doubling y
\* into [1, 2].
RECURSIVE Log(_)
Log(y) ==
    IF y > 2 * SCALE THEN LN2 + Log(RDiv(y, 2))
    ELSE IF y < SCALE THEN Log(2 * y) - LN2
    ELSE LET z  == Div(y - SCALE, y + SCALE)
             z2 == Mul(z, z)
             t3 == Mul(z, z2)
             t5 == Mul(t3, z2)
             t7 == Mul(t5, z2)
         IN 2 * (z + RDiv(t3, 3) + RDiv(t5, 5) + RDiv(t7, 7))

\* np.sqrt, kept as its radicand.
Sqrt(q) == [sqrt |-> q]

\* ------------------------------------------------------------------------
\* Vectors (sequences) and matrices (sequences of rows)
\* ------------------------------------------------------------------------

RECURSIVE SumFrom(_, _)
SumFrom(s, i) == IF i > Len(s) THEN 0 ELSE s[i] + SumFrom(s, i + 1)

\* A numpy array: a value computed once, when it is built (v itself).
Array(v) == v \o <<>>

\* Python's sum over a sequence of numbers.
Sum(s) == SumFrom(s, 1)

RECURSIVE MaxFrom(_, _)
MaxFrom(s, i) ==
    IF i = Len(s) THEN s[i]
    ELSE LET r == MaxFrom(s, i + 1) IN IF s[i] > r THEN s[i] ELSE r

\* np.amax of a nonempty sequence.
Max(s) == MaxFrom(s, 1)

\* np.mean of a sequence.
Mean(s) == RDiv(Sum(s), Len(s))

\* np.mean(A, axis=1): the mean of every row.
RowMeans(A) == Array(([k \in 1..Len(A) |-> Mean(A[k])]))

\* The number of columns of a matrix that has rows.
Width(A) == Len(A[1])

Transpose(A) == Array(([j \in 1..Width(A) |-> Array([i \in 1..Len(A) |-> A[i][j]])]))

\* np.matmul of A (p x q) and B (q x r), q >= 1.
MatMul(A, B) ==
    Array(([i \in 1..Len(A) |->
              Array([j \in 1..Width(B) |->
                  Sum(Array([k \in 1..Len(B) |-> Mul(A[i][k], B[k][j])]))])]))

\* A times the column vector v.
MatVec(A, v) == Array(([i \in 1..Len(A) |-> Sum(Array([k \in 1..Len(v) |-> Mul(A[i][k], v[k])]))]))

\* The sum of a nonempty sequence of matrices of one shape.
MatSum(Ms) ==
    LET M == Array(Ms)
    IN Array(([i \in 1..Len(M[1]) |->
                 Array([j \in 1..Len(M[1][i]) |-> Sum(Array([q \in 1..Len(M) |-> M[q][i][j]]))])]))

\* The sum of a nonempty sequence of vectors of one length.
VecSum(vs) ==
    LET V == Array(vs)
    IN Array(([k \in 1..Len(V[1]) |-> Sum(Array([q \in 1..Len(V) |-> V[q][k]]))]))

\* c * A for a scalar c.
MatScale(c, A) == Array(([i \in 1..Len(A) |-> Array([j \in 1..Len(A[i]) |-> Mul(c, A[i][j])])]))

VecScale(c, v) == Array(([k \in 1..Len(v) |-> Mul(c, v[k])]))


Zeros(p, q) == Array(([i \in 1..p |-> Array([j \in 1..q |-> 0])]))

\* ------------------------------------------------------------------------
\* Covariance primitives (mics.utils)
\* ------------------------------------------------------------------------

\* The truncation tolerance of the pseudo-inverse, in units: a singular value
\* within PinvTol units of zero is taken as zero.
PinvTol == 2

\* The 2 x 2 minor of A on rows r1, r2 and columns c1, c2 (exact: in units of
\* 1 / SCALE^2).
Minor(A, r1, r2, c1, c2) == A[r1][c1] * A[r2][c2] - A[r1][c2] * A[r2][c1]

\* The two indices of 1..3 other than i, in order.
Others(i) == IF i = 1 THEN <<2, 3>> ELSE IF i = 2 THEN <<1, 3>> ELSE <<1, 2>>

\* The (i, j) cofactor of a 3 x 3 matrix (exact).
Cofactor(A, i, j) ==
    LET r == Others(i)
        c == Others(j)
        d == Minor(A, r[1], r[2], c[1], c[2])
    IN IF (i + j) % 2 = 0 THEN d ELSE -d

\* pinv: the Moore-Penrose pseudo-inverse of a symmetric matrix of order 1,
\* 2 or 3, rounded to the unit.  With e1, e2, e3 the elementary symmetric
\* functions of the eigenvalues (trace, sum of the principal 2 x 2 minors,
\* determinant; computed exactly), the smallest singular value of a matrix
\* of rank r is about e_r / e_(r-1), and the rank is the largest r for which
\* that exceeds the tolerance.  Full rank: the inverse.  Rank 2 of 3:
\* A+ = ((e1 I - A) / e2) ((e1 A - A A) / e2), the inverse on the range
\* times the projection on the range.  Rank 1: A+ = A / e1^2.  Rank 0: zero.
Pinv(A) ==
    LET k  == Len(A)
        e1 == Sum(Array([i \in 1..k |-> A[i][i]]))
        e2 == IF k = 1 THEN 0
              ELSE IF k = 2 THEN Minor(A, 1, 2, 1, 2)
              ELSE Minor(A, 1, 2, 1, 2) + Minor(A, 1, 3, 1, 3) + Minor(A, 2, 3, 2, 3)
        e3 == IF k < 3 THEN 0
              ELSE A[1][1] * Minor(A, 2, 3, 2, 3)
                   - A[1][2] * Minor(A, 2, 3, 1, 3)
                   + A[1][3] * Minor(A, 2, 3, 1, 2)
    IN IF k = 3 /\ Abs(e3) > PinvTol * Abs(e2)
         THEN Array([i \in 1..3 |-> Array([j \in 1..3 |->
                  RDiv(Cofactor(A, j, i) * SCALE * SCALE, e3)])])
       ELSE IF k = 2 /\ Abs(e2) > PinvTol * Abs(e1)
         THEN << <<RDiv(A[2][2] * SCALE * SCALE, e2), RDiv(-A[1][2] * SCALE * SCALE, e2)>>,
                 <<RDiv(-A[2][1] * SCALE * SCALE, e2), RDiv(A[1][1] * SCALE * SCALE, e2)>> >>
       ELSE IF k = 3 /\ Abs(e2) > PinvTol * Abs(e1)
         THEN LET X  == Array(([i \in 1..3 |-> Array([j \in 1..3 |->
                            RDiv(((IF i = j THEN e1 ELSE 0) - A[i][j]) * SCALE * SCALE, e2)])]))
                  A2 == Array(([i \in 1..3 |-> Array([j \in 1..3 |->
                            Sum(Array([q \in 1..3 |-> A[i][q] * A[q][j]]))])]))
                  Pr == Array(([i \in 1..3 |-> Array([j \in 1..3 |->
                            RDiv((e1 * A[i][j] - A2[i][j]) * SCALE, e2)])]))
              IN MatMul(X, Pr)
       ELSE IF Abs(e1) <= PinvTol THEN Zeros(k, k)
       ELSE Array([i \in 1..k |-> Array([j \in 1..k |-> RDiv(A[i][j] * SCALE * SCALE, e1 * e1)])])

\* The deviations of the block means of every row of `values` (p x n) from
\* the row's mean: non-overlapping blocks of blockSize columns, n \div
\* blockSize of them, the trailing columns dropped.
BlockDeviations(values, mean, blockSize) ==
    LET nb == Width(values) \div blockSize
    IN Array(([k \in 1..Len(values) |->
                 Array([j \in 1..nb |->
                     Mean(Array([t \in 1..blockSize |-> values[k][(j - 1) * blockSize + t]]))
                     - mean[k]])]))

\* cross_covariance: the covariance of the means of A (p x n) and B (q x n),
\* from the block means (at least two blocks).
CrossCovariance(A, meanA, B, meanB, blockSize) ==
    LET nb == Width(A) \div blockSize
        dA == BlockDeviations(A, meanA, blockSize)
        dB == BlockDeviations(B, meanB, blockSize)
    IN Array(([k \in 1..Len(A) |->
                 Array([l \in 1..Len(B) |->
                     RDiv(Sum(Array([j \in 1..nb |-> Mul(dA[k][j], dB[l][j])])),
                          nb * (nb - 1))])]))

\* covariance: the covariance of the mean of `values`.
Covariance(values, mean, blockSize) ==
    CrossCovariance(values, mean, values, mean, blockSize)

\* ------------------------------------------------------------------------
\* The free-energy solver (MICS.py)
\* ------------------------------------------------------------------------

\* MICS._newton_raphson_iteration, evaluated at free energies fv for the
\* potential matrices uu (uu[i] is m x n[i]), the composition piv and the
\* sample sizes nn: the posterior matrices P, the log-normalizers u0, the
\* mean posteriors pm, p0, iB0 and the step it returns.
NewtonRaphsonIteration(fv, uu, piv, nn) ==
    LET m  == Len(fv)
        S  == 1..m
        g  == Array([k \in S |-> fv[k] + Log(piv[k])])
        x  == Array([i \in S |-> [k \in S |-> Array([t \in 1..nn[i] |-> g[k] - uu[i][k][t]])]])
        xmax  == Array([i \in S |-> Array([t \in 1..nn[i] |-> Max([k \in S |-> x[i][k][t]])])])
        numer == Array([i \in S |-> [k \in S |-> Array([t \in 1..nn[i] |->
                     Exp(x[i][k][t] - xmax[i][t])])]])
        denom == Array([i \in S |-> Array([t \in 1..nn[i] |-> Sum([k \in S |-> numer[i][k][t]])])])
        Pn  == Array([i \in S |-> [k \in S |-> Array([t \in 1..nn[i] |->
                   Div(numer[i][k][t], denom[i][t])])]])
        u0n == Array([i \in S |-> << Array([t \in 1..nn[i] |-> -(xmax[i][t] + Log(denom[i][t]))]) >>])
        pmn == Array([i \in S |-> RowMeans(Pn[i])])
        p0n == VecSum([i \in S |-> VecScale(piv[i], pmn[i])])
        PPt == Array([i \in S |-> MatMul(Pn[i], Transpose(Pn[i]))])
        B0  == Array([k \in S |-> [l \in S |->
                   (IF k = l THEN p0n[k] ELSE 0)
                   - Sum([i \in S |-> RDiv(Mul(piv[i], PPt[i][k][l]), nn[i])])]])
        iB0n == Array(Pinv(B0))
        dfull == MatVec(iB0n, [k \in S |-> piv[k] - p0n[k]])
    IN [P |-> Pn, u0 |-> u0n, pm |-> pmn, p0 |-> p0n, iB0 |-> iB0n,
        df |-> Array([k \in 1..(m - 1) |-> dfull[k + 1] - dfull[1]])]

\* LoopCondition without the absolute value.
LoopConditionSigned(step, tolerance) == \E k \in 1..Len(step) : step[k] > tolerance

\* The test of the solver's loop: any(abs(df) > tol).
LoopCondition(step, tolerance) == \E k \in 1..Len(step) : Abs(step[k]) > tolerance

\* ApplyStep on the wrong slice (self.f[0:m-1] += df): the first entry moves.
ApplyStepFromFirst(fv, step) ==
    Array(([k \in 1..Len(fv) |-> IF k = Len(fv) THEN fv[k] ELSE fv[k] + step[k]]))

\* self.f[1:m] += df
ApplyStep(fv, step) == Array(([k \in 1..Len(fv) |-> IF k = 1 THEN fv[k] ELSE fv[k] + step[k - 1]]))

\* Sp0 = sum(pi[i]**2 * covariance(P[i], pm[i], b[i]))
SolverSp0(piv, Pv, pmv, bv) ==
    MatSum(Array([i \in 1..Len(piv) |->
               MatScale(Mul(piv[i], piv[i]), Covariance(Pv[i], pmv[i], bv[i]))]))

\* Theta = multi_dot([iB0, Sp0, iB0]): of three matrices of one order
\* multi_dot multiplies the last two first.
SolverTheta(iB, Sp) == MatMul(iB, MatMul(Sp, iB))

\* ------------------------------------------------------------------------
\* Samples: the inputs of a mixture
\* ------------------------------------------------------------------------

\* An expression `coef * col` (a constant times a column of the dataset), or
\* the column alone when coef is "".
Expr(coef, col) == [coef |-> coef, col |-> col]

\* Datasets: the ordered column names and the configurations.
DataA == [columns |-> <<"E", "V">>,
          rows |-> << [E |-> 0, V |-> 256], [E |-> 256, V |-> 512] >>]

DataB == [columns |-> <<"E", "V">>,
          rows |-> << [E |-> 256, V |-> 384], [E |-> 512, V |-> 128] >>]

DataC == [columns |-> <<"E", "V">>,
          rows |-> << [E |-> 128, V |-> 256], [E |-> 768, V |-> 0], [E |-> 384, V |-> 128] >>]

\* The columns of DataA in the other order.
DataSwapped == [columns |-> <<"V", "E">>,
                rows |-> << [E |-> 0, V |-> 256], [E |-> 256, V |-> 512] >>]

\* A dataset that records E only.
DataEOnly == [columns |-> <<"E">>, rows |-> << [E |-> 0], [E |-> 256] >>]

\* mics.sample: a dataset, the reduced potential beta * E of its state, the
\* effective sample size and the block size.
Sample(dataset, beta, neffv) ==
    [dataset |-> dataset, potential |-> Expr("beta", "E"),
     constants |-> [beta |-> beta], neff |-> neffv, b |-> 1]

\* The sample lists a mixture is built from.
SampleLists ==
    { <<>>,
      << Sample(DataA, 128, 512) >>,
      << Sample(DataA, 128, 512), Sample(DataB, 256, 512) >>,
      << Sample(DataA, 128, 512), Sample(DataA, 512, 256) >>,
      << Sample(DataA, 128, 512), Sample(DataB, 256, 512), Sample(DataC, 512, 768) >>,
      << Sample(DataSwapped, 128, 512), Sample(DataSwapped, 256, 512) >>,
      << Sample(DataA, 128, 512), Sample(DataSwapped, 256, 512) >>,
      << Sample(DataA, 128, 512), Sample(DataEOnly, 256, 512) >> }

\* The mixtures the engines are called on: two samples, two samples whose
\* solver stops within its tolerance only, and three samples.
CallSetups ==
    { [samples |-> << Sample(DataA, 128, 512), Sample(DataA, 512, 256) >>,
       tol |-> 0, guess |-> <<0, SCALE>>],
      [samples |-> << Sample(DataA, 128, 512), Sample(DataB, 256, 512) >>,
       tol |-> 4, guess |-> <<0, 0>>],
      [samples |-> << Sample(DataA, 128, 512), Sample(DataB, 256, 512),
                      Sample(DataC, 512, 768) >>,
       tol |-> 4, guess |-> <<0, SCALE, SCALE>>] }

\* The tolerances a solver is given.
Tolerances == {0, 4}

\* The initial free-energy guesses overlapSampling may hand over for m
\* states.
Guesses(m) == { Array([k \in 1..m |-> IF k = 1 THEN 0 ELSE g]) : g \in {0, SCALE} }

\* A data frame: an index (row labels) and ordered columns.
Frame(index, columns) == [index |-> index, columns |-> columns]

Column(name, values) == [name |-> name, values |-> values]

\* The reference indices of the calls.
References == {0, 1}

\* The constants beta of the target potentials beta * E.
TargetBetas == {192, 384}

\* The property dictionaries of the reweightings: none, one that needs the
\* global constant c, one under the reserved name, one under the name of the
\* conditions' column.
PropertySets ==
    { <<>>,
      << [name |-> "cV", expr |-> Expr("c", "V")] >>,
      << [name |-> "f", expr |-> Expr("", "E")] >>,
      << [name |-> "beta", expr |-> Expr("", "E")] >> }

\* A dictionary of lists, as the conditions of a reweighting: its items in
\* order, each a name and its list.
Dict(items) == [items |-> items]

\* The conditions of the reweightings: a dictionary with the column beta, of
\* one row and of two, and a data frame of two rows that carry the same
\* label.
ConditionSets ==
    { Dict(<< Column("beta", <<192>>) >>),
      Dict(<< Column("beta", <<384, 192>>) >>),
      Frame(<<7, 7>>, << Column("beta", <<384, 192>>) >>) }

\* The global constants of the reweightings: none, the one a property needs,
\* one of the name of the conditions' column.
ConstantSets == { <<>>, [c |-> 512], [beta |-> 256] }

\* The reweightings made: every choice of properties, conditions, reference
\* and global constants in which the constants are ones the call reads (c
\* with the property that needs it, beta with no property, none with the
\* others).
ReweightingInputs ==
    { call \in [properties : PropertySets, conditions : ConditionSets,
                reference : References, constants : ConstantSets] :
        /\ "c" \in DOMAIN call.constants
              => \E q \in 1..Len(call.properties) : call.properties[q].name = "cV"
        /\ "beta" \in DOMAIN call.constants => call.properties = <<>>
        /\ (\E q \in 1..Len(call.properties) : call.properties[q].name \in {"f", "beta"})
              => DOMAIN call.constants = {} }

\* The property lists handed to the reweighting engine.
EngineProperties == { <<>>, <<Expr("", "V")>>, <<Expr("", "E"), Expr("", "V")>> }

\* func(...).lambdify(): whether the expression can be compiled over the
\* column names and the constants given.
Compiles(expr, columns, constants) ==
    /\ \E c \in 1..Len(columns) : columns[c] = expr.col
    /\ expr.coef = "" \/ expr.coef \in DOMAIN constants

\* The compiled expression applied to one configuration.
Eval(expr, constants, row) ==
    IF expr.coef = "" THEN row[expr.col] ELSE Mul(constants[expr.coef], row[expr.col])

\* multimap(functions, dataset): row k is function k over the configurations.
\* Each function is an expression with the constants it was compiled with.
Multimap(functions, dataset) ==
    Array(([k \in 1..Len(functions) |->
              Array([t \in 1..Len(dataset.rows) |->
                  Eval(functions[k].expr, functions[k].constants, dataset.rows[t])])]))

\* s.potential.lambdify() for every sample.
Potentials(smp) ==
    Array(([k \in 1..Len(smp) |-> [expr |-> smp[k].potential, constants |-> smp[k].constants]]))


\* SetColumn always adding a column, even when the name is taken.
AppendColumn(frame, name, values) ==
    [frame EXCEPT !.columns = Append(frame.columns, Column(name, values))]

\* frame[name] = values: replaces the column of that name, or adds it last.
SetColumn(frame, name, values) ==
    IF \E c \in 1..Len(frame.columns) : frame.columns[c].name = name
    THEN [frame EXCEPT !.columns =
            Array([c \in 1..Len(frame.columns) |->
                IF frame.columns[c].name = name THEN Column(name, values)
                ELSE frame.columns[c]])]
    ELSE [frame EXCEPT !.columns = Append(frame.columns, Column(name, values))]

\* The qualifier frame of a sample pool: one row per state, holding the
\* constant of the state's potential.
QualifierFrame(smp) ==
    Frame(Array([k \in 1..Len(smp) |-> k - 1]),
          << Column("beta", Array([k \in 1..Len(smp) |-> smp[k].constants.beta])) >>)

\* ------------------------------------------------------------------------
\* State
\* ------------------------------------------------------------------------

VARIABLES
    pc,           \* "new", "solving" (in the solver's loop), "ready", "failed"
    error,        \* the kind of the exception the last operation raised, or ""
    samples,      \* mixture.samples
    tol,          \* the solver's tolerance
    n, neff, names, u, f,       \* mixture.n, .neff, .names, .u, .f
    b, pi, P, pm, u0, p0, iB0,  \* the solver's fields
    Sp0, Theta, Overlap,
    df, iter,     \* the solver's last step and its iteration counter
    stages,       \* what construction has done so far, in order: "potentials",
                  \* "guess" (overlapSampling), "method" (the solver invoked)
    qualifiers,   \* the qualifier frame the sample pool holds
    shared,       \* whether __qualifiers__ hands out that frame itself (or a copy)
    last,         \* the last call on the ready mixture, with what it returned
    prev          \* the call before it, kept when the two are to be compared: a
                  \* free_energies before a free_energies, a __perturb__
                  \* before a __reweight__

solverState == <<f, P, pm, u0, p0, iB0, Sp0, Theta>>

solverRest == <<b, pi, Overlap, df, iter>>

mixtureFields == <<samples, tol, n, neff, names, u, stages>>

vars == <<pc, error, samples, tol, n, neff, names, u, f, b, pi, P, pm, u0, p0, iB0,
          Sp0, Theta, Overlap, df, iter, stages, qualifiers, shared, last, prev>>

\* No call yet.
NoCall == [op |-> "none"]

Init ==
    /\ pc = "new"
    /\ error = ""
    /\ samples = <<>>
    /\ tol = 0
    /\ n = <<>> /\ neff = <<>> /\ names = <<>> /\ u = <<>> /\ f = <<>>
    /\ b = <<>> /\ pi = <<>> /\ P = <<>> /\ pm = <<>> /\ u0 = <<>>
    /\ p0 = <<>> /\ iB0 = <<>> /\ Sp0 = <<>> /\ Theta = <<>> /\ Overlap = <<>>
    /\ df = <<>> /\ iter = 0
    /\ stages = <<>>
    /\ qualifiers = <<>>
    /\ shared \in BOOLEAN
    /\ last = NoCall /\ prev = NoCall

\* ------------------------------------------------------------------------
\* The reweighting and perturbation engines (MICS.py)
\* ------------------------------------------------------------------------

\* w = [exp(u0[i] - u[i])]: the importance weights of every sample's
\* configurations for the target potential ut (ut[i] is 1 x n[i]).
Weights(ut) ==
    Array(([i \in 1..Len(u0) |-> << Array([t \in 1..n[i] |-> Exp(u0[i][1][t] - ut[i][1][t])]) >>]))

\* iw0 = 1.0 / sum(pi[i] * mean(w[i], axis=1))[0]
InverseWeight(w) ==
    Div(SCALE, Sum(Array([i \in 1..Len(w) |-> Mul(pi[i], Mean(w[i][1]))])))

\* pu = sum(pi[i] * mean(w[i] * P[i], axis=1)) * iw0
PosteriorAtTarget(w, iw0) ==
    Array(([k \in 1..Len(f) |->
              Mul(Sum(Array([i \in 1..Len(w) |->
                         Mul(pi[i], Mean(Array([t \in 1..n[i] |-> Mul(w[i][1][t], P[i][k][t])])))])),
                  iw0)]))

\* pu[ref] -= 1.0
MinusOneAt(pu, ref) == Array(([k \in 1..Len(pu) |-> IF k = ref + 1 THEN pu[k] - SCALE ELSE pu[k]]))

\* np.block([[A, B], [B.T, C]]) for A (p x p), B (p x q), C (q x q).
SymmetricBlock(A, B, C) ==
    LET p == Len(A)
        q == Len(C)
    IN Array(([i \in 1..(p + q) |->
                 Array([j \in 1..(p + q) |->
                     IF i <= p /\ j <= p THEN A[i][j]
                     ELSE IF i <= p THEN B[i][j - p]
                     ELSE IF j <= p THEN B[j][i - p]
                     ELSE C[i - p][j - p]])]))

\* multi_dot([G.T, S, G]) for G with c columns, given as its c columns.
Sandwich(Gcols, S) ==
    LET SG == Array(([c \in 1..Len(Gcols) |-> MatVec(S, Gcols[c])]))
    IN Array(([a \in 1..Len(Gcols) |->
                 Array([c \in 1..Len(Gcols) |->
                     Sum(Array([i \in 1..Len(S) |-> Mul(Gcols[a][i], SG[c][i])]))])]))

\* z = [w[i] * y[i]]: the weighted properties (y[i] is p x n[i], p >= 0).
WeightedProperties(w, y) ==
    Array(([i \in 1..Len(w) |-> Array([q \in 1..Len(y[i]) |-> Array([t \in 1..n[i] |->
              Mul(w[i][1][t], y[i][q][t])])])]))

\* yu = sum(pi[i] * mean(z[i], axis=1)) * iw0
PropertyEstimates(z, iw0) ==
    Array(([q \in 1..Len(z[1]) |->
              Mul(Sum(Array([i \in 1..Len(z) |-> Mul(pi[i], Mean(z[i][q]))])), iw0)]))

\* pytu = sum(pi[i] * matmul(P[i], z[i].T) / n[i]) * iw0
PosteriorProperties(z, iw0) ==
    Array(([k \in 1..Len(f) |-> Array([q \in 1..Len(z[1]) |->
              Mul(Sum(Array([i \in 1..Len(z) |->
                         RDiv(Mul(pi[i],
                                  Sum(Array([t \in 1..n[i] |-> Mul(P[i][k][t], z[i][q][t])]))),
                              n[i])])),
                  iw0)])]))

\* Ss0 = block([[Sp0, Sp0r0], [Sp0r0.T, Sr0]]): the covariance of the mean
\* posteriors and of the means of the rows r[i] (those of z[i] and w[i] in
\* __reweight__, those of w[i] in __perturb__).
JointCovariance(r) ==
    LET S  == 1..Len(r)
        rm == Array([i \in S |-> RowMeans(r[i])])
        Sp0r0 == MatSum([i \in S |->
                    MatScale(Mul(pi[i], pi[i]),
                             CrossCovariance(P[i], pm[i], r[i], rm[i], b[i]))])
        Sr0 == MatSum([i \in S |->
                    MatScale(Mul(pi[i], pi[i]), Covariance(r[i], rm[i], b[i]))])
    IN SymmetricBlock(Sp0, Sp0r0, Sr0)

\* The columns of G = block([[Dfup0, Dyup0], [Dfuz0, Dyuz0], [Dfuw0, Dyuw0]]):
\* the one of fu, then one for every property.  pu is taken before the
\* reference's entry is lowered.
ReweightGradient(iw0, yu, pu, pytu, ref) ==
    LET S == 1..Len(f)
        p == Len(yu)
        Dyup0 == MatMul(iB0, Array([k \in S |-> Array([q \in 1..p |->
                                Mul(pu[k], yu[q]) - pytu[k][q]])]))
        Dfup0 == MatVec(iB0, MinusOneAt(pu, ref))
    IN Array(<< Dfup0 \o Array([q \in 1..p |-> 0]) \o <<iw0>> >>
             \o Array([c \in 1..p |->
                    [k \in S |-> Dyup0[k][c]]
                    \o Array([q \in 1..p |-> IF q = c THEN iw0 ELSE 0])
                    \o <<Mul(-yu[c], iw0)>>]))

\* yu = concatenate(([fu], yu)) with fu = log(iw0) - f[ref], and
\* Theta = multi_dot([G.T, Ss0, G]).
ReweightResult(iw0, yu, G, Ss0, ref) ==
    [yu |-> <<Log(iw0) - f[ref + 1]>> \o yu, Theta |-> Sandwich(G, Ss0)]

\* __reweight__ once the weights, the weighted properties and iw0 are known.
ReweightEstimate(w, z, iw0, yu, pu, ref) ==
    ReweightResult(iw0, yu,
                   ReweightGradient(iw0, yu, pu, PosteriorProperties(z, iw0), ref),
                   JointCovariance(Array(([i \in 1..Len(w) |-> z[i] \o w[i]]))),
                   ref)

ReweightWeighted(w, z, iw0, ref) ==
    ReweightEstimate(w, z, iw0, PropertyEstimates(z, iw0), PosteriorAtTarget(w, iw0), ref)

ReweightWeights(w, y, ref) ==
    ReweightWeighted(w, WeightedProperties(w, y), InverseWeight(w), ref)

\* MICS.__reweight__(u, y, ref): the estimates [fu, yu...] and their
\* covariance.  ut[i] is 1 x n[i], y[i] is p x n[i] (p >= 0 properties).
Reweight(ut, y, ref) == ReweightWeights(Weights(ut), y, ref)

\* PerturbResult relative to the first state, whatever the reference.
PerturbResultFirst(iw0, pu, Ss0, ref) ==
    [f |-> Log(iw0) - f[1],
     df |-> Sqrt(Sandwich(<< MatVec(iB0, MinusOneAt(pu, 0)) \o <<iw0>> >>, Ss0)[1][1])]

\* G = concatenate([matmul(iB0, pu), [iw0]]) with pu[ref] -= 1, and
\* df = sqrt(multi_dot([G.T, Ss0, G])).
PerturbResult(iw0, pu, Ss0, ref) ==
    [f |-> Log(iw0) - f[ref + 1],
     df |-> Sqrt(Sandwich(<< MatVec(iB0, MinusOneAt(pu, ref)) \o <<iw0>> >>, Ss0)[1][1])]

PerturbWeighted(w, iw0, ref) ==
    PerturbResult(iw0, PosteriorAtTarget(w, iw0), JointCovariance(w), ref)

PerturbWeights(w, ref) == PerturbWeighted(w, InverseWeight(w), ref)

\* MICS.__perturb__(u, ref): the free energy of the target state and its
\* standard error.
Perturb(ut, ref) == PerturbWeights(Weights(ut), ref)

\* ------------------------------------------------------------------------
\* Construction: mixture.__init__ and the method's initialization
\* ------------------------------------------------------------------------

\* ValidateList raising the wrong kind of exception.
ValidateListWrongKind(smp) == IF Len(smp) = 0 THEN "ValueError" ELSE ""

\* The first check of mixture.__init__: "" when the list passes, else the
\* kind of the exception raised.
ValidateList(smp) == IF Len(smp) = 0 THEN "InputError" ELSE ""

\* The second check, of a nonempty list: every sample's list of column names
\* must be names, the one of the first sample.
ValidateColumns(smp) ==
    IF \E i \in 1..Len(smp) : smp[i].dataset.columns # smp[1].dataset.columns
    THEN "InputError" ELSE ""

\* mixture(samples) with a MICS method of tolerance t.  `guess` is what
\* overlapSampling returns, `verbose` the diagnostics flag.  The call ends
\* with the first Newton-Raphson iteration done and the loop about to test
\* its step, or with an exception.
Construct(smp, t, guess, verbose) ==
    LET m    == Len(smp)
        nn   == Array([i \in 1..m |-> Len(smp[i].dataset.rows)])
        ne   == Array([i \in 1..m |-> smp[i].neff])
        uu   == Array([i \in 1..m |-> Multimap(Potentials(smp), smp[i].dataset)])
        piv  == Array([i \in 1..m |-> Div(ne[i], Sum(ne))])
    IN
    /\ pc = "new"
    /\ samples' = smp
    /\ qualifiers' = QualifierFrame(smp)
    /\ tol' = t
    /\ IF ValidateList(smp) # ""
       THEN /\ pc' = "failed" /\ error' = ValidateList(smp)
            /\ UNCHANGED <<n, neff, names, u, f, stages, solverRest,
                           P, pm, u0, p0, iB0>>
       ELSE /\ n' = nn /\ neff' = ne /\ names' = smp[1].dataset.columns
            /\ IF ValidateColumns(smp) # ""
               THEN /\ pc' = "failed" /\ error' = ValidateColumns(smp)
                    /\ UNCHANGED <<u, f, stages, solverRest, P, pm, u0, p0, iB0>>
               ELSE LET it == NewtonRaphsonIteration(guess, uu, piv, nn)
                    IN
                    /\ u' = uu
                    /\ f' = guess
                    /\ stages' = <<"potentials", "guess", "method">>
                    /\ b' = Array([i \in 1..m |-> smp[i].b])
                    /\ pi' = piv
                    /\ iter' = 1
                    /\ P' = it.P /\ pm' = it.pm /\ u0' = it.u0
                    /\ p0' = it.p0 /\ iB0' = it.iB0 /\ df' = it.df
                    /\ UNCHANGED Overlap
                    \* max(abs(df)) of the diagnostics fails on an empty step
                    /\ IF verbose /\ it.df = <<>>
                       THEN pc' = "failed" /\ error' = "ValueError"
                       ELSE pc' = "solving" /\ error' = ""
    /\ UNCHANGED <<Sp0, Theta, shared, last, prev>>

\* One pass of the solver's loop: the step is applied and a new one computed.
NewtonStep ==
    LET fn == ApplyStep(f, df)
        it == NewtonRaphsonIteration(fn, u, pi, n)
    IN
    /\ pc = "solving"
    /\ LoopCondition(df, tol)
    /\ iter < MaxIter
    /\ iter' = iter + 1
    /\ f' = fn
    /\ P' = it.P /\ pm' = it.pm /\ u0' = it.u0
    /\ p0' = it.p0 /\ iB0' = it.iB0 /\ df' = it.df
    /\ UNCHANGED <<pc, error, mixtureFields, b, pi, Sp0, Theta, Overlap,
                   qualifiers, shared, last, prev>>

\* The loop ends: the covariances are computed and construction returns.
Finish ==
    LET Sp == SolverSp0(pi, P, pm, b)
    IN
    /\ pc = "solving"
    /\ ~LoopCondition(df, tol)
    /\ Sp0' = Sp
    /\ Theta' = SolverTheta(iB0, Sp)
    /\ Overlap' = pm
    /\ pc' = "ready"
    /\ UNCHANGED <<error, mixtureFields, f, b, pi, P, pm, u0, p0, iB0, df, iter,
                   qualifiers, shared, last, prev>>

\* ------------------------------------------------------------------------
\* Python's % formatting of a string with one string argument
\* ------------------------------------------------------------------------

FormatFlags == {"#", "0", "-", " ", "+"}

FormatDigits == {"0", "1", "2", "3", "4", "5", "6", "7", "8", "9"}

FormatLengths == {"h", "l", "L"}

\* The conversions that take a number.
NumberConversions == {"d", "i", "u", "o", "x", "X", "e", "E", "f", "F", "g", "G"}

\* The conversions that take any object.
ObjectConversions == {"s", "r", "a"}

\* The digits of the largest width (PY_SSIZE_T_MAX, 2^63 - 1) and of the
\* largest precision (INT_MAX, 2^31 - 1).
WidthMax ==
    << "9", "2", "2", "3", "3", "7", "2", "0", "3", "6", "8", "5", "4", "7", "7",
       "5", "8", "0", "7" >>

PrecisionMax == << "2", "1", "4", "7", "4", "8", "3", "6", "4", "7" >>

\* The value of a digit character.
DigitValue(ch) ==
    CHOOSE d \in 0..9 : <<"0", "1", "2", "3", "4", "5", "6", "7", "8", "9">>[d + 1] = ch

\* The first position from j on whose character is not in `set` (Len + 1 if
\* there is none).
RECURSIVE SkipWhile(_, _, _)
SkipWhile(fmt, j, set) ==
    IF j <= Len(fmt) /\ fmt[j] \in set THEN SkipWhile(fmt, j + 1, set) ELSE j

\* Whether the digits of fmt from position a on, as many as mx has, are a
\* greater number than mx (compared from digit k of mx on).
RECURSIVE DigitsGreater(_, _, _, _)
DigitsGreater(fmt, a, mx, k) ==
    IF k > Len(mx) THEN FALSE
    ELSE IF DigitValue(fmt[a + k - 1]) # DigitValue(mx[k])
      THEN DigitValue(fmt[a + k - 1]) > DigitValue(mx[k])
    ELSE DigitsGreater(fmt, a, mx, k + 1)

\* Whether the number written by the digits at positions first .. end - 1
\* exceeds the number written by mx.
TooBig(fmt, first, end, mx) ==
    LET s == SkipWhile(fmt, first, {"0"})
    IN \/ end - s > Len(mx)
       \/ end - s = Len(mx) /\ DigitsGreater(fmt, s, mx, 1)

\* The flags, the width, the precision and the length modifier (at most one)
\* of the specifier whose "%" is at position i: the position after each.
SpecifierParts(fmt, i) ==
    LET afterFlags == SkipWhile(fmt, i + 1, FormatFlags)
        afterWidth == SkipWhile(fmt, afterFlags, FormatDigits)
        afterPrec  == IF afterWidth <= Len(fmt) /\ fmt[afterWidth] = "."
                      THEN SkipWhile(fmt, afterWidth + 1, FormatDigits)
                      ELSE afterWidth
        afterLen   == IF afterPrec <= Len(fmt) /\ fmt[afterPrec] \in FormatLengths
                      THEN afterPrec + 1
                      ELSE afterPrec
    IN [flags |-> afterFlags, width |-> afterWidth, prec |-> afterPrec,
        length |-> afterLen]

\* The position of the conversion character of the specifier whose "%" is at
\* position i: after the flags, the width, the precision and one length
\* modifier.
ConversionAt(fmt, i) == SpecifierParts(fmt, i).length

\* What parsing the specifier at position i raises when the argument is a
\* string (not a mapping, not a tuple): "" when it parses.
SpecifierError(fmt, i) ==
    LET p == SpecifierParts(fmt, i)
    IN IF i + 1 <= Len(fmt) /\ fmt[i + 1] = "(" THEN "TypeError"  \* requires a mapping
       ELSE IF p.flags <= Len(fmt) /\ fmt[p.flags] = "*" THEN "TypeError"  \* * wants int
       ELSE IF TooBig(fmt, p.flags, p.width, WidthMax) THEN "ValueError"   \* width too big
       ELSE IF /\ p.width + 1 <= Len(fmt)
               /\ fmt[p.width] = "." /\ fmt[p.width + 1] = "*" THEN "TypeError"
       ELSE IF /\ p.prec > p.width
               /\ TooBig(fmt, p.width + 1, p.prec, PrecisionMax)
         THEN "ValueError"                                        \* precision too big
       ELSE IF p.length > Len(fmt) THEN "ValueError"              \* incomplete format
       ELSE ""

\* fmt % arg for a string arg, scanned from position i with `left` arguments
\* not yet used: "" when the formatting succeeds, else the kind of the
\* exception it raises.  (A width too large for the memory is not followed.)
RECURSIVE FormatFrom(_, _, _, _)
FormatFrom(fmt, i, left, arg) ==
    IF i > Len(fmt)
      THEN IF left > 0 THEN "TypeError" ELSE ""   \* not all arguments converted
    ELSE IF fmt[i] # "%" THEN FormatFrom(fmt, i + 1, left, arg)
    ELSE IF i + 1 <= Len(fmt) /\ fmt[i + 1] = "%" THEN FormatFrom(fmt, i + 2, left, arg)
    ELSE IF SpecifierError(fmt, i) # "" THEN SpecifierError(fmt, i)
    ELSE LET c == ConversionAt(fmt, i)
         IN IF left = 0 THEN "TypeError"           \* not enough arguments
            ELSE IF fmt[c] \in NumberConversions
              THEN "TypeError"                     \* a number is required, not str
            ELSE IF fmt[c] = "c"
              THEN IF Len(arg) = 1 THEN FormatFrom(fmt, c + 1, left - 1, arg)
                   ELSE "TypeError"                \* %c requires int or char
            ELSE IF fmt[c] \in ObjectConversions
              THEN FormatFrom(fmt, c + 1, left - 1, arg)
            ELSE "ValueError"                      \* unsupported format character

\* fmt % arg, arg a string.
PyFormat(fmt, arg) == FormatFrom(fmt, 1, 1, arg)

\* The name of the free-energy entry of a reweighting.
freeEnergy == "f"

\* "Word % is reserved for free energies"
ReservedMessage ==
    << "W", "o", "r", "d", " ", "%", " ", "i", "s", " ", "r", "e", "s",
       "e", "r", "v", "e", "d", " ", "f", "o", "r", " ", "f", "r", "e",
       "e", " ", "e", "n", "e", "r", "g", "i", "e", "s" >>

\* raise InputError("Word % is reserved for free energies" % freeEnergy): the
\* message is formatted first, and the exception of a failed formatting is
\* the one raised.
ReservedRaised ==
    IF PyFormat(ReservedMessage, freeEnergy) # ""
    THEN PyFormat(ReservedMessage, freeEnergy)
    ELSE "InputError"

\* ------------------------------------------------------------------------
\* Calls on a constructed mixture (mixtures.py)
\* ------------------------------------------------------------------------

\* errorTitle(name): the name of the column of a standard error.
ErrorTitle(name) == "d" \o name

\* stdError(Theta): the square roots of the diagonal.
StdError(T) == Array(([q \in 1..Len(T) |-> Sqrt(T[q][q])]))

\* Whether mixture.__compute__(functions, constants) can compile every
\* function (it raises InputError otherwise).
CanCompute(functions, constants) ==
    \A q \in 1..Len(functions) : Compiles(functions[q], names, constants)

\* mixture.__compute__(functions, constants): for every sample, the matrix of
\* the functions over its configurations.
Compute(functions, constants) ==
    Array(([i \in 1..Len(samples) |->
              Multimap(Array([q \in 1..Len(functions) |->
                           [expr |-> functions[q], constants |-> constants]]),
                       samples[i].dataset)]))

\* FreeEnergyColumn relative to the first state, whatever the reference.
FreeEnergyColumnFirst(reference) == Array([k \in 1..Len(f) |-> f[k] - f[1]])

\* frame["f"] = self.f - self.f[reference]
FreeEnergyColumn(reference) == Array(([k \in 1..Len(f) |-> f[k] - f[reference + 1]]))

\* frame["df"] = sqrt(diag(T) - 2 * T[:, reference] + T[reference, reference])
ErrorColumn(reference) ==
    Array(([k \in 1..Len(f) |->
              Sqrt(Theta[k][k] - 2 * Theta[k][reference + 1]
                   + Theta[reference + 1][reference + 1])]))

\* StoredF with the subtraction done in place (self.f -= self.f[reference]).
StoredFInPlace(reference) == FreeEnergyColumn(reference)

\* self.f once free_energies has returned: the subtraction builds a new
\* array, self.f is only read.
StoredF(reference) == f

\* The frame free_energies builds from the qualifier frame.
FreeEnergyFrame(frame, reference) ==
    SetColumn(SetColumn(frame, "f", FreeEnergyColumn(reference)),
              "df", ErrorColumn(reference))

\* mixture.free_energies(reference)
FreeEnergies(reference) ==
    LET frame == FreeEnergyFrame(qualifiers, reference)
    IN
    /\ pc = "ready"
    /\ reference \in 0..(Len(f) - 1)
    /\ qualifiers' = IF shared THEN frame ELSE qualifiers
    /\ f' = StoredF(reference)
    /\ prev' = IF last.op = "free_energies" THEN last ELSE NoCall
    /\ last' = [op |-> "free_energies", reference |-> reference, result |-> frame]
    /\ error' = ""
    /\ UNCHANGED <<pc, mixtureFields, P, pm, u0, p0, iB0, Sp0, Theta, solverRest,
                   shared>>

\* method.__perturb__(mixture, u, reference), u the potential `beta * E`
\* computed with the constant beta.
PerturbCall(beta, reference) ==
    LET ut == Compute(<<Expr("beta", "E")>>, [beta |-> beta])
    IN
    /\ pc = "ready"
    /\ reference \in 0..(Len(f) - 1)
    /\ prev' = NoCall
    /\ last' = [op |-> "perturb", u |-> ut, reference |-> reference,
                result |-> Perturb(ut, reference)]
    /\ error' = ""
    /\ UNCHANGED <<pc, mixtureFields, solverState, solverRest, qualifiers, shared>>

\* The expressions of a property dictionary, in its order.
PropertyExprs(properties) == Array([q \in 1..Len(properties) |-> properties[q].expr])

\* propnames = [freeEnergy] + list(properties.keys())
PropNames(properties) ==
    <<freeEnergy>> \o Array([q \in 1..Len(properties) |-> properties[q].name])

\* condframe: pd.DataFrame(data=conditions) for a dictionary of equally long
\* lists (the rows are labelled 0, 1, ...), the conditions themselves when
\* they are a data frame already.
CondFrame(conditions) ==
    IF "items" \in DOMAIN conditions
    THEN Frame(Array([j \in 1..Len(conditions.items[1].values) |-> j - 1]),
               conditions.items)
    ELSE conditions

\* cases(condframe): for every row, in order, its label and its values by
\* column name.
Cases(frame) ==
    Array(([j \in 1..Len(frame.index) |->
              [index |-> frame.index[j],
               condition |->
                  [name \in {frame.columns[c].name : c \in 1..Len(frame.columns)} |->
                      LET c == CHOOSE c \in 1..Len(frame.columns) : frame.columns[c].name = name
                      IN frame.columns[c].values[j]]]]))

\* dict(condition, **constants): the constants of one row; a global constant
\* wins over the row's value of the same name.
Merge(condition, constants) ==
    [k \in (DOMAIN condition) \cup (DOMAIN constants) |->
              IF k \in DOMAIN constants THEN constants[k] ELSE condition[k]]

\* result[name] = value on an ordered dictionary.
SetItem(dict, name, value) ==
    IF \E c \in 1..Len(dict) : dict[c].name = name
    THEN Array([c \in 1..Len(dict) |->
             IF dict[c].name = name THEN Column(name, value) ELSE dict[c]])
    ELSE Append(dict, Column(name, value))

\* The loop over zip(propnames, yu, dyu) from position q on: every estimate
\* under its name, its standard error under the error title of the name.
RECURSIVE ResultFrom(_, _, _, _, _)
ResultFrom(propnames, yu, dyu, q, result) ==
    IF q > Len(propnames) \/ q > Len(yu) \/ q > Len(dyu) THEN result
    ELSE ResultFrom(propnames, yu, dyu, q + 1,
                    SetItem(SetItem(result, propnames[q], <<yu[q]>>),
                            ErrorTitle(propnames[q]), <<dyu[q]>>))

\* What one pass of the loop of reweighting does with the engine's answer:
\* the engine call it made and the one-row frame it appends.
CaseResult(index, propnames, consts, ut, y, reference, est) ==
    [raised |-> "",
     call |-> [consts |-> consts, u |-> ut, y |-> y, reference |-> reference,
               yu |-> est.yu, Theta |-> est.Theta],
     frame |-> Frame(<<index>>,
                     ResultFrom(propnames, est.yu, StdError(est.Theta), 1, <<>>))]

\* The engine is called on the potential and the properties of one pass.
CaseEngine(index, propnames, consts, ut, y, reference) ==
    CaseResult(index, propnames, consts, ut, y, reference, Reweight(ut, y, reference))

\* One pass with the row's constants consts: the exception it raises, or its
\* result.  The properties are computed with the row's constants when they
\* could not be computed with the global ones.
CaseWith(index, potential, exprs, propnames, reference, constants, consts) ==
    IF ~CanCompute(<<potential>>, consts) THEN [raised |-> "InputError"]
    ELSE IF ~CanCompute(exprs, constants) /\ ~CanCompute(exprs, consts)
      THEN [raised |-> "InputError"]
    ELSE CaseEngine(index, propnames, consts, Compute(<<potential>>, consts),
                    Compute(exprs, IF CanCompute(exprs, constants)
                                   THEN constants ELSE consts),
                    reference)

\* One pass of the loop of reweighting over the conditions.
ReweightCase(case, potential, properties, reference, constants) ==
    CaseWith(case.index, potential, PropertyExprs(properties), PropNames(properties),
             reference, constants, Merge(case.condition, constants))

\* pd.concat(frames) of a nonempty list of frames with the same columns.
Concat(frames) ==
    Frame(Array([j \in 1..Len(frames) |-> frames[j].index[1]]),
          Array([c \in 1..Len(frames[1].columns) |->
              Column(frames[1].columns[c].name,
                     Array([j \in 1..Len(frames) |-> frames[j].columns[c].values[1]]))]))

\* The rows of a left join on the labels, from row j of left on: for every
\* row of left, in order, the rows of right that carry its label, in order.
RECURSIVE JoinRows(_, _, _)
JoinRows(left, right, j) ==
    IF j > Len(left.index) THEN <<>>
    ELSE LET match == SelectSeq(Array([r \in 1..Len(right.index) |-> r]),
                                LAMBDA r : right.index[r] = left.index[j])
         IN Array([q \in 1..Len(match) |-> [left |-> j, right |-> match[q]]])
            \o JoinRows(left, right, j + 1)

\* The frame of the joined rows.
Joined(left, right, rows) ==
    Frame(Array([q \in 1..Len(rows) |-> left.index[rows[q].left]]),
          Array([c \in 1..Len(left.columns) |->
              Column(left.columns[c].name,
                     Array([q \in 1..Len(rows) |-> left.columns[c].values[rows[q].left]]))])
          \o Array([c \in 1..Len(right.columns) |->
                 Column(right.columns[c].name,
                        Array([q \in 1..Len(rows) |->
                            right.columns[c].values[rows[q].right]]))]))

\* left.join(right): every row of left with every row of right that has its
\* label (every label of left is one of right's).  A column name the two
\* frames share makes the join raise ValueError (columns overlap but no
\* suffix specified).
Join(left, right) ==
    IF \E c \in 1..Len(left.columns), d \in 1..Len(right.columns) :
          left.columns[c].name = right.columns[d].name
    THEN [raised |-> "ValueError"]
    ELSE Joined(left, right, JoinRows(left, right, 1))

\* The position at which the loop stops: the first pass that raises, or one
\* past the last.
StopAt(done) ==
    IF \A j \in 1..Len(done) : done[j].raised = "" THEN Len(done) + 1
    ELSE CHOOSE j \in 1..Len(done) :
            /\ done[j].raised # ""
            /\ \A i \in 1..(j - 1) : done[i].raised = ""

\* The return of reweighting after its loop made the engine calls of `log`:
\* the joined frame, or the exception the join raised.
Returned(log, joined) ==
    IF "raised" \in DOMAIN joined
    THEN [raised |-> joined.raised, log |-> log]
    ELSE [raised |-> "", log |-> log, result |-> joined]

\* What a reweighting leaves: the exception it raised, the engine calls it
\* made and, if none raised, condframe.join(pd.concat(results)).
Outcome(condframe, done, stop) ==
    IF stop <= Len(done)
    THEN [raised |-> done[stop].raised, log |-> Array([j \in 1..(stop - 1) |-> done[j].call])]
    ELSE Returned(Array([j \in 1..Len(done) |-> done[j].call]),
                  Join(condframe, Concat(Array([j \in 1..Len(done) |-> done[j].frame]))))

\* The loop of reweighting over the cases.
RunCases(condframe, todo, potential, properties, reference, constants) ==
    LET done == Array(([j \in 1..Len(todo) |->
                   ReweightCase(todo[j], potential, properties, reference, constants)]))
    IN Outcome(condframe, done, StopAt(done))

\* reweighting up to its return or its exception.
ReweightingOutcome(potential, properties, condframe, reference, constants) ==
    IF \E q \in 1..Len(properties) : properties[q].name = freeEnergy
    THEN [raised |-> ReservedRaised, log |-> <<>>]
    ELSE RunCases(condframe, Cases(condframe), potential, properties, reference,
                  constants)

\* The record of a call of reweighting.
ReweightingCall(potential, properties, conditions, reference, constants, outcome) ==
    [op |-> "reweighting", potential |-> potential, properties |-> properties,
     conditions |-> conditions, reference |-> reference, constants |-> constants]
    @@ outcome

\* mixture.reweighting(potential, properties, conditions=conditions,
\* reference=reference, **constants), without derivatives and combinations.
Reweighting(potential, properties, conditions, reference, constants) ==
    /\ pc = "ready"
    /\ reference \in 0..(Len(f) - 1)
    /\ last' = ReweightingCall(potential, properties, conditions, reference, constants,
                   ReweightingOutcome(potential, properties, CondFrame(conditions),
                                      reference, constants))
    /\ error' = last'.raised
    /\ prev' = NoCall
    /\ UNCHANGED <<pc, mixtureFields, solverState, solverRest, qualifiers, shared>>

\* Construction and free_energies, over every sample list, tolerance and
\* guess.
Next ==
    \/ \E smp \in SampleLists, t \in Tolerances, verbose \in BOOLEAN :
          \E guess \in Guesses(Len(smp)) : Construct(smp, t, guess, verbose)
    \/ NewtonStep
    \/ Finish
    \/ \E reference \in References : FreeEnergies(reference)

Spec == Init /\ [][Next]_vars

\* Every call, on the mixtures of CallSetups.
NextCalls ==
    \/ \E setup \in CallSetups :
          Construct(setup.samples, setup.tol, setup.guess, FALSE)
    \/ NewtonStep
    \/ Finish
    \/ \E reference \in References : FreeEnergies(reference)
    \/ \E beta \in TargetBetas, reference \in References : PerturbCall(beta, reference)
    \/ \E call \in ReweightingInputs :
          Reweighting(Expr("beta", "E"), call.properties, call.conditions,
                      call.reference, call.constants)

SpecCalls == Init /\ [][NextCalls]_vars

\* ------------------------------------------------------------------------
\* Properties
\* ------------------------------------------------------------------------

\* Whether the frame has a column of that name.
HasColumn(frame, name) == \E c \in 1..Len(frame.columns) : frame.columns[c].name = name

\* frame[name]: the values of the column of that name.
ColumnValues(frame, name) ==
    frame.columns[CHOOSE c \in 1..Len(frame.columns) : frame.columns[c].name = name].values

\* The set of the properties a sample records.
PropertySet(sample) ==
    {sample.dataset.columns[c] : c \in 1..Len(sample.dataset.columns)}

\* Construction has returned or raised.
Constructed == pc \in {"failed", "solving", "ready"}

\* C1: a reweighting with a property named "f" raises InputError, before any
\* row is evaluated and before the engine is called.
C1_ReservedNameRaisesInputError ==
    (last.op = "reweighting"
        /\ \E q \in 1..Len(last.properties) : last.properties[q].name = "f")
    => (last.raised = "InputError" /\ error = "InputError" /\ last.log = <<>>)

\* C2: construction from an empty sample list fails with InputError, with no
\* potential matrix built, no guess computed and the solver not invoked.
C2_EmptyListFails ==
    (Constructed /\ samples = <<>>)
    => (pc = "failed" /\ error = "InputError" /\ stages = <<>>
        /\ u = <<>> /\ f = <<>> /\ P = <<>> /\ iter = 0)

C2_Witness == pc = "failed" /\ samples = <<>>

\* C3: construction from a nonempty list fails with InputError exactly when
\* some sample's set of properties differs from another's, and then nothing
\* of the potentials, the guess and the solver has been done.
C3_FailsExactlyOnDifferentSets ==
    (Constructed /\ samples # <<>>)
    => /\ (pc = "failed" /\ error = "InputError")
          <=> (\E i \in 1..Len(samples) :
                  PropertySet(samples[i]) # PropertySet(samples[1]))
       /\ (pc = "failed" /\ error = "InputError") => stages = <<>>

\* C4: once construction has finished, no call changes f, P, pm, u0, p0, iB0,
\* Sp0 or Theta.
C4_SolverStateImmutable == [][pc = "ready" => solverState' = solverState]_vars

C4_Witness ==
    /\ pc = "ready"
    /\ last.op = "reweighting" /\ last.raised = "" /\ Len(last.log) = 2
    /\ f[2] # 0

\* C5: a reweighting over a conditions table of k >= 1 rows (its property
\* names not reserved, its properties computable for every row) calls the
\* engine once per row, in order, with the row's constants merged with the
\* global ones, and returns a table of exactly k rows, row j holding the
\* conditions of row j and the estimates of the j-th engine call.
C5_OneEngineCallPerRow ==
    LET frame == CondFrame(last.conditions)
        k == Len(frame.index)
        rows == Cases(frame)
    IN (/\ last.op = "reweighting"
        /\ k >= 1
        /\ \A q \in 1..Len(last.properties) : last.properties[q].name # freeEnergy
        /\ \A j \in 1..k :
              CanCompute(PropertyExprs(last.properties),
                         Merge(rows[j].condition, last.constants)))
       => /\ last.raised = ""
          /\ Len(last.log) = k
          /\ Len(last.result.index) = k
          /\ \A j \in 1..k :
                /\ last.log[j].consts = Merge(rows[j].condition, last.constants)
                /\ last.log[j].reference = last.reference
                /\ last.result.index[j] = frame.index[j]
                /\ \A c \in 1..Len(frame.columns) :
                      ColumnValues(last.result, frame.columns[c].name)[j]
                         = frame.columns[c].values[j]
                /\ ColumnValues(last.result, freeEnergy)[j] = last.log[j].yu[1]
                /\ \A q \in 1..Len(last.properties) :
                      ColumnValues(last.result, last.properties[q].name)[j]
                         = last.log[j].yu[q + 1]

\* A reweighting over two rows that carry the same label has made its two
\* engine calls, with different estimates, and returned four rows.
C5_Witness ==
    /\ last.op = "reweighting" /\ last.raised = ""
    /\ Len(CondFrame(last.conditions).index) = 2
    /\ Len(last.log) = 2
    /\ last.log[1].yu # last.log[2].yu
    /\ Len(last.result.index) = 4

\* C6: free_energies(reference = r) reports for state r a free energy of 0
\* and a standard error of 0 (the square root of 0).
C6_ReferenceRowIsZero ==
    last.op = "free_energies"
    => /\ ColumnValues(last.result, "f")[last.reference + 1] = 0
       /\ ColumnValues(last.result, "df")[last.reference + 1] = Sqrt(0)

C6_Witness ==
    /\ last.op = "free_energies" /\ last.reference = 1
    /\ f[2] # 0 /\ Theta[2][2] # 0

\* C7: the table of free_energies has one row per state, a column "f" and a
\* column "δf".
C7_TableHasDeltaColumn ==
    last.op = "free_energies"
    => /\ Len(last.result.index) = Len(samples)
       /\ HasColumn(last.result, "f")
       /\ HasColumn(last.result, "δf")

\* C8: for the same mixture, target potential and reference, __perturb__
\* and __reweight__ agree on the free energy and on its variance, whatever
\* the properties: the value of __perturb__ is the first estimate of
\* __reweight__, the square of its standard error entry [0, 0] of the
\* covariance.
C8_EnginesAgree ==
    /\ last.op = "perturb"
       => \A properties \in EngineProperties :
             LET est == Reweight(last.u, Compute(properties, <<>>), last.reference)
             IN /\ est.yu[1] = last.result.f
                /\ Sqrt(est.Theta[1][1]) = last.result.df
    /\ (last.op = "reweighting" /\ last.raised = "")
       => \A j \in 1..Len(last.log) :
             LET pert == Perturb(last.log[j].u, last.log[j].reference)
             IN /\ pert.f = last.log[j].yu[1]
                /\ pert.df = Sqrt(last.log[j].Theta[1][1])

C8_Witness ==
    /\ last.op = "perturb" /\ last.reference = 1
    /\ f[2] # 0
    /\ last.result.f # 0
    /\ last.result.df # Sqrt(0)

\* C9: two successive calls of free_energies with the same reference return
\* equal tables.
C9_FreeEnergiesRepeatable ==
    (last.op = "free_energies" /\ prev.op = "free_energies"
        /\ prev.reference = last.reference)
    => prev.result = last.result

C9_Witness ==
    /\ shared
    /\ last.op = "free_energies" /\ prev.op = "free_energies"
    /\ prev.reference = last.reference
    /\ HasColumn(qualifiers, "f")

\* C10: the solver's loop ends exactly at the first step within the
\* tolerance: from a step within the tolerance construction finishes with f
\* as it is, from any other step the loop goes on, and construction never
\* finishes on a step outside the tolerance.
C10_LoopEndsAtFirstSmallStep ==
    [][/\ pc = "solving"
          => IF \A k \in 1..Len(df) : -tol <= df[k] /\ df[k] <= tol
             THEN pc' = "ready" /\ f' = f /\ df' = df /\ iter' = iter
             ELSE pc' = "solving" /\ iter' = iter + 1
       /\ pc' = "ready"
          => \A k \in 1..Len(df') : -tol' <= df'[k] /\ df'[k] <= tol']_vars

C10_Witness ==
    /\ pc = "ready" /\ iter >= 3 /\ tol > 0
    /\ \E k \in 1..Len(df) : df[k] # 0

\* C11: from the first evaluation on, and so whenever construction has
\* finished and in every call after it, the stored P, pm, u0, p0 and iB0 are
\* those of one Newton-Raphson iteration evaluated at the stored f (the
\* converged step is not applied, f is not touched after the last
\* evaluation), and the first entry of f is never modified.
C11_StoredStateIsOfStoredF ==
    /\ [](pc \in {"solving", "ready"}
           => LET it == NewtonRaphsonIteration(f, u, pi, n)
              IN /\ P = it.P /\ pm = it.pm /\ u0 = it.u0
                 /\ p0 = it.p0 /\ iB0 = it.iB0)
    /\ [][(pc = "solving" \/ pc = "ready") => (f'[1] = f[1])]_vars

C11_Witness ==
    /\ pc = "ready" /\ iter >= 2
    /\ \E k \in 1..Len(df) : df[k] # 0
    /\ last.op \in {"perturb", "reweighting"}
    /\ f[2] # 0

====
